---- MODULE Spec2Model ----
(***************************************************************************)
(* Model of the Paystack webhook backend (law316/paystack-backend).        *)
(*                                                                         *)
(* The repository holds six revisions of one Express server: the two       *)
(* halves of src/server.js and src/unnamed/part_000 .. part_003.  A        *)
(* process runs exactly one of them; `variant` says which.                 *)
(*                                                                         *)
(* Abstractions, all stated here:                                          *)
(*  - a byte sequence or a text is named by a string; Utf8Decode and       *)
(*    Utf8Encode are the lossy conversions of Buffer#toString and of       *)
(*    Hmac#update(string);                                                 *)
(*  - hex(HMAC-SHA512(key, data)) is the pair (key, data): two digests     *)
(*    are equal exactly when key and data are equal;                       *)
(*  - time is counted in days and the server's time zone is UTC, so that   *)
(*    Date#setMonth (local time) and Date#toISOString (UTC) agree;         *)
(*  - body-parser 1.x: a parser that skips a request leaves req.body = {}. *)
(***************************************************************************)
EXTENDS Integers, FiniteSets, Sequences, Bags, TLC

VARIABLES variant, secret, now, db, conn, applied, last

vars == <<variant, secret, now, db, conn, applied, last>>

(***************************************************************************)
(* Bounds of the model.                                                    *)
(***************************************************************************)
MaxConn == 2     \* requests the server has open at the same time
MaxTicks == 1    \* days the clock may advance

(***************************************************************************)
(* Deployments.                                                            *)
(***************************************************************************)
Variants == {"server_v1", "server_v2", "part_000", "part_001", "part_002", "part_003"}

\* process.env.PAYSTACK_SECRET_KEY: undefined, empty, or a real key.
Undefined == "<undefined>"
Secrets == {Undefined, "", "sk_live"}
Keys == {"", "sk_live"}

(***************************************************************************)
(* Calendar: Date arithmetic of JavaScript.                                *)
(***************************************************************************)
Date(y, m, d) == [y |-> y, m |-> m, d |-> d]
NoDate == Date(0, 0, 0)

IsLeap(y) == (y % 4 = 0 /\ y % 100 # 0) \/ y % 400 = 0

DaysInMonth(y, m) ==
    IF m = 2 THEN (IF IsLeap(y) THEN 29 ELSE 28)
    ELSE IF m \in {4, 6, 9, 11} THEN 30 ELSE 31

\* The month after (y, m), as a pair.
MonthAfter(y, m) == IF m = 12 THEN <<y + 1, 1>> ELSE <<y, m + 1>>

NextDay(dt) ==
    IF dt.d < DaysInMonth(dt.y, dt.m) THEN Date(dt.y, dt.m, dt.d + 1)
    ELSE LET n == MonthAfter(dt.y, dt.m) IN Date(n[1], n[2], 1)

\* date.setMonth(date.getMonth() + 1): the day of the month is kept, and a day
\* the target month does not have overflows into the month after it.
SetMonthPlusOne(dt) ==
    LET t == MonthAfter(dt.y, dt.m)
        dim == DaysInMonth(t[1], t[2])
    IN  IF dt.d <= dim THEN Date(t[1], t[2], dt.d)
        ELSE LET u == MonthAfter(t[1], t[2]) IN Date(u[1], u[2], dt.d - dim)

Epoch == Date(2024, 1, 31)

RECURSIVE DayN(_)
DayN(n) == IF n = 0 THEN Epoch ELSE NextDay(DayN(n - 1))

\* new Date(), at day granularity.
Today == DayN(now)

(***************************************************************************)
(* Request bodies on the wire.  `id` names the byte sequence.              *)
(***************************************************************************)
PaidAbsent == [kind |-> "absent", date |-> NoDate]
PaidInvalid == [kind |-> "invalid", date |-> NoDate]
PaidOn(dt) == [kind |-> "date", date |-> dt]

Charge(id, ref, email, paid) ==
    [id |-> id, utf8 |-> TRUE, json |-> TRUE, event |-> "charge.success",
     hasData |-> TRUE, hasCustomer |-> TRUE, reference |-> ref, email |-> email,
     paid_at |-> paid]

NoEmail == "<undefined>"

Bodies ==
    { Charge("e1", "ref-1", "a@example.com", PaidOn(Date(2024, 1, 31))),
      Charge("e2", "ref-2", "a@example.com", PaidOn(Date(2024, 1, 10))),
      Charge("e3", "ref-3", "x@example.com", PaidOn(Date(2024, 1, 10))),
      Charge("e4", "ref-1", NoEmail, PaidOn(Date(2024, 1, 31))),
      Charge("e5", "ref-1", "a@example.com", PaidAbsent),
      Charge("e6", "ref-3", "x@example.com", PaidInvalid),
      [Charge("e9", "ref-1", NoEmail, PaidOn(Date(2024, 1, 31)))
         EXCEPT !.hasCustomer = FALSE],
      [id |-> "e7", utf8 |-> TRUE, json |-> TRUE, event |-> "charge.success",
       hasData |-> FALSE, hasCustomer |-> FALSE, reference |-> "", email |-> NoEmail, paid_at |-> PaidAbsent],
      [id |-> "e8", utf8 |-> TRUE, json |-> TRUE, event |-> "transfer.success",
       hasData |-> TRUE, hasCustomer |-> FALSE, reference |-> "ref-9", email |-> NoEmail, paid_at |-> PaidAbsent],
      [id |-> "text", utf8 |-> TRUE, json |-> FALSE, event |-> "",
       hasData |-> FALSE, hasCustomer |-> FALSE, reference |-> "", email |-> NoEmail, paid_at |-> PaidAbsent],
      [id |-> "binary", utf8 |-> FALSE, json |-> FALSE, event |-> "",
       hasData |-> FALSE, hasCustomer |-> FALSE, reference |-> "", email |-> NoEmail, paid_at |-> PaidAbsent] }

NoBody == [id |-> "", utf8 |-> TRUE, json |-> FALSE, event |-> "",
           hasData |-> FALSE, hasCustomer |-> FALSE, reference |-> "", email |-> NoEmail, paid_at |-> PaidAbsent]

Refs == {"ref-1", "ref-2", "ref-3"}

\* Buffer#toString("utf8"): bytes that are not UTF-8 decode to U+FFFD.
Utf8Decode(bytes) ==
    IF \E b \in Bodies : b.id = bytes /\ ~b.utf8 THEN "decoded:" \o bytes ELSE bytes

\* Hmac#update(string) hashes the UTF-8 encoding of the string.  A text is
\* named by the name of its encoding, so only Utf8Decode loses information.
Utf8Encode(text) == text

\* JSON.parse(text): the parsed value, when the text is JSON.
CanParse(text) == \E b \in Bodies : b.id = text /\ b.json
JsonParse(text) == CHOOSE b \in Bodies : b.id = text /\ b.json

\* Object.prototype.toString of a plain object.
ObjectObject == "[object Object]"

(***************************************************************************)
(* Signatures: the x-paystack-signature header.                            *)
(***************************************************************************)
NoSig == [present |-> FALSE, key |-> "", data |-> ""]

\* crypto.createHmac("sha512", key).update(data).digest("hex")
HmacHex(key, data) == [present |-> TRUE, key |-> key, data |-> data]

Request(ctype, body, sig) == [ctype |-> ctype, body |-> body, sig |-> sig]


\* The signatures tried for a body: its HMAC under each key and, for one
\* body, none.
SigsFor(b) ==
    { HmacHex(k, b.id) : k \in Keys } \cup (IF b.id = "e1" THEN {NoSig} ELSE {})

\* The requests a client may post to /webhook: every body as JSON with each
\* signature, one whose signature is that of "[object Object]", and one that
\* is not sent as application/json.
Requests ==
    UNION { { Request("application/json", b, s) : s \in SigsFor(b) } : b \in Bodies }
    \cup UNION { { Request("application/json", b, HmacHex(k, ObjectObject)) : k \in Keys }
                 : b \in { x \in Bodies : x.id = "e1" } }
    \cup UNION { { Request("text/plain", b, HmacHex(k, b.id)) : k \in Keys }
                 : b \in { x \in Bodies : x.id = "e1" } }

(***************************************************************************)
(* The user directory and the subscription records.                        *)
(***************************************************************************)
Users == {"u1", "u2", "u3"}

\* u1 and u3 were registered with the same email address.
UserEmail == [u \in Users |-> IF u = "u2" THEN "b@example.com" ELSE "a@example.com"]

EmptyRecord ==
    [email |-> "",
     isPremium |-> "absent", subscriptionStart |-> NoDate, subscriptionEnd |-> NoDate,
     lastPaymentReference |-> "",
     isFreeUser |-> "absent", premiumMonths |-> 0, subscription |-> "",
     subscriptionStartDate |-> NoDate, subscriptionEndDate |-> NoDate]


\* users/<uid> of a registered user who never paid: the profile, no
\* subscription fields.
UserRecord(u) == [EmptyRecord EXCEPT !.email = UserEmail[u]]

\* History: the write most recently applied to a user's record (the event it
\* was made for and the window it carried).
Write(event, start, end) == [event |-> event, start |-> start, end |-> end]
NoWrite == Write(NoBody, NoDate, NoDate)

\* The first user of a query result (Object.keys(userData)[0], Array#find).
UserOrder == <<"u1", "u2", "u3">>

\* A query result read from its other end.
LastUser(S) ==
    UserOrder[CHOOSE i \in 1..Len(UserOrder) :
                /\ UserOrder[i] \in S
                /\ \A j \in (i + 1)..Len(UserOrder) : UserOrder[j] \notin S]

FirstUser(S) ==
    UserOrder[CHOOSE i \in 1..Len(UserOrder) :
                /\ UserOrder[i] \in S
                /\ \A j \in 1..(i - 1) : UserOrder[j] \notin S]

(***************************************************************************)
(* Body-parsing middleware: what req.body is when the route handler runs.  *)
(***************************************************************************)
Buffer(bytes) == [type |-> "Buffer", bytes |-> bytes, value |-> NoBody]
Parsed(b) == [type |-> "Object", bytes |-> "", value |-> b]
EmptyObject == [type |-> "Object", bytes |-> "", value |-> NoBody]
BadJson == [type |-> "SyntaxError", bytes |-> "", value |-> NoBody]

\* app.use("/webhook", express.raw({ type: "application/json" })) registered
\* before express.json(): the body arrives as a Buffer of the wire bytes.
RawBeforeJson(req) ==
    IF req.ctype = "application/json" THEN Buffer(req.body.id) ELSE EmptyObject

\* bodyParser.json() / express.json() registered before express.raw(): the
\* body is parsed (or refused, 400) and express.raw then skips the request.
JsonBeforeRaw(req) ==
    IF req.ctype = "application/json"
    THEN (IF req.body.json THEN Parsed(req.body) ELSE BadJson)
    ELSE EmptyObject

\* What Hmac#update accepts: a Buffer or a string; anything else throws.
Hashable(bytes) == [ok |-> TRUE, bytes |-> bytes]
Unhashable == [ok |-> FALSE, bytes |-> ""]

AsHmacData(reqBody) ==
    IF reqBody.type = "Buffer" THEN Hashable(reqBody.bytes) ELSE Unhashable

\* req.body.toString()
BodyToString(reqBody) ==
    IF reqBody.type = "Buffer" THEN Utf8Decode(reqBody.bytes) ELSE ObjectObject

validateWebhook(receivedHash, payload) ==
    IF secret = Undefined \/ ~payload.ok THEN "throw"
    ELSE IF receivedHash = HmacHex(secret, payload.bytes) THEN "true"
    ELSE "false"

(***************************************************************************)
(* Open requests.  `conn` is the bag of the requests the server has open,  *)
(* each with the position of its handler and the handler's locals.         *)
(***************************************************************************)
\* The outcome of the synchronous part of a handler: a response status, or
\* the await it is suspended at.
Respond(status, verified, parsed) ==
    [status |-> status, pc |-> "responded", verified |-> verified, parsed |-> parsed,
     start |-> NoDate, end |-> NoDate]
Suspend(pc, start, end) ==
    [status |-> 0, pc |-> pc, verified |-> TRUE, parsed |-> TRUE,
     start |-> start, end |-> end]

Open == BagToSet(conn)

\* res.send... ends the request; the response is on the wire before the event
\* loop runs the next callback.
NoPendingResponse == \A h \in Open : h.pc # "responded"

\* The handler h of an open request moves on to h2.
Becomes(h, h2) == conn' = (conn (-) SetToBag({h})) (+) SetToBag({h2})

\* A handler that answers first and lets its work finish afterwards.
SendFirst(h, status) ==
    [h EXCEPT !.pc = "responded", !.status = status, !.log = <<"send">> \o @]

\* res.sendStatus(status) / res.status(status).send(...): the response goes
\* out and the handler returns.  `log` lists what the request has done that
\* the outside can see, in order: "write" (a record update applied) and
\* "send" (a response sent).
Send(h, status) ==
    [h EXCEPT !.pc = "responded", !.status = status, !.log = Append(@, "send")]

\* The record of a request the server has just taken on: its route, what the
\* middleware made of its body (reqBody), what its handler feeds to the HMAC
\* (payload), and where the handler stands after its synchronous part (out).
Handler(route, req, reqBody, payload, event, out) ==
    [route |-> route, pc |-> out.pc, req |-> req, status |-> out.status,
     preparsed |-> (reqBody.type = "Object" /\ reqBody.value # NoBody),
     hashed |-> payload,
     verified |-> out.verified, parsed |-> out.parsed,
     event |-> event,
     calledProvider |-> (out.pc \in {"axios", "verifyAxios", "createAxios"}),
     downstream |-> (out.pc # "responded"), lookup |-> "none",
     fault |-> "none", verification |-> "none",
     wrote |-> FALSE, changed |-> FALSE, rewrote |-> FALSE,
     log |-> IF out.pc = "responded" THEN <<"send">> ELSE <<>>,
     redelivery |-> (req.body.reference \in applied),
     uid |-> "", start |-> out.start, end |-> out.end]

\* The server takes on a request.
Accept(h) ==
    /\ BagCardinality(conn) < MaxConn
    /\ NoPendingResponse
    /\ conn' = conn (+) SetToBag({h})
    /\ UNCHANGED <<variant, secret, now, db, applied, last>>

\* A request arrives at /webhook and its handler runs up to its first await.
Deliver(req, reqBody, payload, out) ==
    Accept(Handler("/webhook", req, reqBody, payload,
                   IF out.parsed THEN JsonParse(req.body.id) ELSE NoBody, out))

(***************************************************************************)
(* src/server.js, first half: POST /webhook.                               *)
(***************************************************************************)
\* .update(rawBody)
Server1Payload(req) == AsHmacData(RawBeforeJson(req))

Server1Run(req) ==
    LET rawBody == RawBeforeJson(req)
        payload == Server1Payload(req)
    IN
    IF ~req.sig.present THEN Respond(403, FALSE, FALSE)
    ELSE IF secret = Undefined \/ ~payload.ok THEN Respond(500, FALSE, FALSE)
    ELSE IF req.sig # HmacHex(secret, payload.bytes) THEN Respond(403, FALSE, FALSE)
    ELSE IF ~CanParse(Utf8Decode(rawBody.bytes)) THEN Respond(500, TRUE, FALSE)
    ELSE LET event == JsonParse(Utf8Decode(rawBody.bytes)) IN
         IF event.event = "charge.success"
         THEN (IF ~event.hasData THEN Respond(500, TRUE, TRUE) ELSE Suspend("axios", NoDate, NoDate))
         ELSE Respond(200, TRUE, TRUE)

Server1Webhook(req) ==
    /\ variant = "server_v1"
    /\ Deliver(req, RawBeforeJson(req), Server1Payload(req), Server1Run(req))

(***************************************************************************)
(* src/server.js, second half: POST /webhook.                              *)
(***************************************************************************)
\* validateWebhook(signature, req.body)
Server2Payload(req) == AsHmacData(JsonBeforeRaw(req))

Server2Run(req) ==
    LET body == JsonBeforeRaw(req) IN
    IF body.type = "SyntaxError" THEN Respond(400, FALSE, FALSE)
    ELSE IF ~req.sig.present THEN Respond(403, FALSE, FALSE)
    ELSE LET valid == validateWebhook(req.sig, Server2Payload(req)) IN
         IF valid = "throw" THEN Respond(500, FALSE, FALSE)
         ELSE IF valid = "false" THEN Respond(403, FALSE, FALSE)
         ELSE IF ~CanParse(BodyToString(body)) THEN Respond(500, TRUE, FALSE)
         ELSE LET event == JsonParse(BodyToString(body)) IN
              IF event.event = "charge.success"
              THEN (IF ~event.hasData \/ ~event.hasCustomer THEN Respond(500, TRUE, TRUE)
                    ELSE Suspend("axios", NoDate, NoDate))
              ELSE Respond(200, TRUE, TRUE)

Server2Webhook(req) ==
    /\ variant = "server_v2"
    /\ Deliver(req, JsonBeforeRaw(req), Server2Payload(req), Server2Run(req))

(***************************************************************************)
(* src/unnamed/part_000: POST /webhook (synchronous, logs only).           *)
(***************************************************************************)
\* .update(rawBody)
Part0Payload(req) == AsHmacData(RawBeforeJson(req))

Part0Run(req) ==
    LET rawBody == RawBeforeJson(req)
        payload == Part0Payload(req)
    IN
    IF ~req.sig.present THEN Respond(403, FALSE, FALSE)
    ELSE IF secret = Undefined \/ ~payload.ok THEN Respond(500, FALSE, FALSE)
    ELSE IF req.sig # HmacHex(secret, payload.bytes) THEN Respond(403, FALSE, FALSE)
    ELSE IF ~CanParse(Utf8Decode(rawBody.bytes)) THEN Respond(500, TRUE, FALSE)
    ELSE LET event == JsonParse(Utf8Decode(rawBody.bytes)) IN
         IF event.event = "charge.success" /\ (~event.hasData \/ ~event.hasCustomer)
         THEN Respond(500, TRUE, TRUE)
         ELSE Respond(200, TRUE, TRUE)

Part0Webhook(req) ==
    /\ variant = "part_000"
    /\ Deliver(req, RawBeforeJson(req), Part0Payload(req), Part0Run(req))

(***************************************************************************)
(* src/unnamed/part_001: POST /webhook (req.rawBody, stub update).         *)
(***************************************************************************)
\* (req, res, next) => { req.rawBody = req.body.toString(); next(); }
RawBodyMiddleware(req) == BodyToString(RawBeforeJson(req))

\* validateWebhook(signature, req.rawBody)
Part1Payload(req) == Hashable(Utf8Encode(RawBodyMiddleware(req)))

Part1Run(req) ==
    LET rawBody == RawBodyMiddleware(req)
        valid == validateWebhook(req.sig, Part1Payload(req))
    IN  IF valid = "throw" THEN Respond(400, FALSE, FALSE)
        ELSE IF valid = "false" THEN Respond(403, FALSE, FALSE)
        ELSE IF ~CanParse(rawBody) THEN Respond(400, TRUE, FALSE)
        ELSE LET event == JsonParse(rawBody) IN
             IF event.event = "charge.success" /\ ~event.hasData
             THEN Respond(400, TRUE, TRUE)
             ELSE Respond(200, TRUE, TRUE)

Part1Webhook(req) ==
    /\ variant = "part_001"
    /\ Deliver(req, RawBeforeJson(req), Part1Payload(req), Part1Run(req))

(***************************************************************************)
(* src/unnamed/part_002: POST /webhook.                                    *)
(***************************************************************************)
\* validateWebhook(signature, rawBody) with rawBody = req.body.toString()
Part2Payload(req) == Hashable(Utf8Encode(BodyToString(JsonBeforeRaw(req))))

Part2Run(req) ==
    LET body == JsonBeforeRaw(req) IN
    IF body.type = "SyntaxError" THEN Respond(400, FALSE, FALSE)
    ELSE LET rawBody == BodyToString(body)
             valid == IF req.sig.present
                      THEN validateWebhook(req.sig, Part2Payload(req))
                      ELSE "false"
         IN  IF valid = "throw" THEN Respond(500, FALSE, FALSE)
             ELSE IF valid = "false" THEN Respond(403, FALSE, FALSE)
             ELSE IF ~CanParse(rawBody) THEN Respond(500, TRUE, FALSE)
             ELSE LET event == JsonParse(rawBody) IN
                  IF event.event = "charge.success"
                  THEN (IF ~event.hasData \/ ~event.hasCustomer
                        THEN Respond(500, TRUE, TRUE)
                        ELSE Suspend("axios", NoDate, NoDate))
                  ELSE Respond(200, TRUE, TRUE)

Part2Webhook(req) ==
    /\ variant = "part_002"
    /\ Deliver(req, JsonBeforeRaw(req), Part2Payload(req), Part2Run(req))

(***************************************************************************)
(* src/unnamed/part_003: POST /webhook (paid_at, Firebase Auth lookup).    *)
(***************************************************************************)
\* .update(rawBody)
Part3Payload(req) == AsHmacData(RawBeforeJson(req))

Part3Run(req) ==
    LET rawBody == RawBeforeJson(req)
        payload == Part3Payload(req)
    IN
    IF ~req.sig.present THEN Respond(403, FALSE, FALSE)
    ELSE IF secret = Undefined \/ ~payload.ok THEN Respond(500, FALSE, FALSE)
    ELSE IF req.sig # HmacHex(secret, payload.bytes) THEN Respond(403, FALSE, FALSE)
    ELSE IF ~CanParse(Utf8Decode(rawBody.bytes)) THEN Respond(500, TRUE, FALSE)
    ELSE LET event == JsonParse(Utf8Decode(rawBody.bytes)) IN
         IF event.event # "charge.success" THEN Respond(200, TRUE, TRUE)
         ELSE IF ~event.hasData THEN Respond(500, TRUE, TRUE)
         ELSE IF event.paid_at.kind = "absent" THEN Respond(400, TRUE, TRUE)
         ELSE IF event.paid_at.kind = "invalid" THEN Respond(400, TRUE, TRUE)
         ELSE IF ~event.hasCustomer THEN Respond(500, TRUE, TRUE)
         ELSE Suspend("listUsers", event.paid_at.date, SetMonthPlusOne(event.paid_at.date))

Part3Webhook(req) ==
    /\ variant = "part_003"
    /\ Deliver(req, RawBeforeJson(req), Part3Payload(req), Part3Run(req))

(***************************************************************************)
(* The provider's transaction-verify endpoint, as axios.get sees it: the   *)
(* transaction status, or a rejected promise (network error, or 401 when   *)
(* the bearer credential is missing).                                      *)
(***************************************************************************)
ProviderOutcomes ==
    IF secret \in {Undefined, ""} THEN {"error"} ELSE {"success", "failed", "error"}

\* A provider other than the real one: every transaction counts as paid.
StatusIsAnything(status) == TRUE

\* verification.data.data.status === "success"
StatusIsSuccess(status) == status = "success"

\* A catch block that acknowledges instead of failing the request.
WebhookCatchAcks(h) == [h EXCEPT !.pc = "responded", !.status = 200,
                                  !.log = Append(@, "send")]

\* catch (error) { res.status(500).json(...) } of the webhook handlers of
\* server.js, part_000, part_002 and part_003.
WebhookCatch(h) == Send(h, 500)

\* await axios.get(.../transaction/verify/${reference}) returns in the webhook
\* handlers of server.js and part_002, which then call updateUserSubscription.
AxiosReturns(h, outcome) ==
    /\ h.pc = "axios"
    /\ NoPendingResponse
    /\ outcome \in ProviderOutcomes
    /\ Becomes(h,
         IF outcome = "error" THEN [WebhookCatch(h) EXCEPT !.fault = "provider"]
         ELSE LET v == [h EXCEPT !.verification = outcome] IN
              IF ~StatusIsSuccess(outcome) THEN Send(v, 200)
              \* customer.email of an event without customer is a TypeError
              ELSE IF ~h.event.hasCustomer THEN WebhookCatch(v)
              \* updateUserSubscription: equalTo(undefined) throws inside its try
              ELSE IF h.event.email = NoEmail
                   THEN Send(v, 200)
              ELSE [v EXCEPT !.pc = "once"])
    /\ UNCHANGED <<variant, secret, now, db, applied, last>>

\* An update that keeps a payment reference the record already has.
SubscriptionUpdateKeepsReference(rec, start, end, reference) ==
    [rec EXCEPT !.isPremium = "true", !.subscriptionStart = start,
                !.subscriptionEnd = end,
                !.lastPaymentReference =
                    IF rec.lastPaymentReference = "" THEN reference
                    ELSE rec.lastPaymentReference]

\* An update that flips the premium flag.
SubscriptionToggle(rec, start, end, reference) ==
    [rec EXCEPT !.isPremium = IF @ = "true" THEN "false" ELSE "true",
                !.subscriptionStart = start, !.subscriptionEnd = end,
                !.lastPaymentReference = reference]

\* The fields updateUserSubscription writes.
SubscriptionUpdate(rec, start, end, reference) ==
    [rec EXCEPT !.isPremium = "true", !.subscriptionStart = start,
                !.subscriptionEnd = end, !.lastPaymentReference = reference]

\* updateUserSubscription (called by the webhook and by /verify-transaction):
\* the users query returns; the dates are taken from the clock and the update
\* is issued.
UsersQueryReturns(h, ok) ==
    /\ h.pc = "once"
    /\ NoPendingResponse
    /\ LET userData == { u \in Users : db[u].email = h.event.email } IN
       Becomes(h,
         IF ~ok THEN [Send(h, 200) EXCEPT !.fault = "directory"]
         ELSE IF userData = {}
              THEN [Send(h, 200) EXCEPT !.lookup = "miss"]
         ELSE [h EXCEPT !.pc = "update", !.lookup = "hit", !.uid = FirstUser(userData),
                        !.start = Today, !.end = SetMonthPlusOne(Today)])
    /\ UNCHANGED <<variant, secret, now, db, applied, last>>

\* updateUserSubscription: usersRef.child(userId).update(...) settles, and the
\* calling handler answers 200 whatever it returned.
UpdateReturns(h, ok) ==
    /\ h.pc = "update"
    /\ NoPendingResponse
    /\ LET ref == h.event.reference
           rec == SubscriptionUpdate(db[h.uid], h.start, h.end, ref)
       IN  IF ok
           THEN /\ db' = [db EXCEPT ![h.uid] = rec]
                /\ applied' = applied \cup {ref}
                /\ last' = [last EXCEPT ![h.uid] = Write(h.event, h.start, h.end)]
                /\ Becomes(h, Send([h EXCEPT !.wrote = TRUE,
                                             !.changed = (rec # db[h.uid]),
                                             !.rewrote = (ref \in applied),
                                             !.log = Append(@, "write")], 200))
           ELSE /\ Becomes(h, [Send(h, 200) EXCEPT !.fault = "store"])
                /\ UNCHANGED <<db, applied, last>>
    /\ UNCHANGED <<variant, secret, now>>

(***************************************************************************)
(* src/unnamed/part_003: the awaits of its webhook handler.                *)
(***************************************************************************)
\* await admin.auth().listUsers() returns; users.find by email.
ListUsersReturns(h, ok) ==
    /\ h.pc = "listUsers"
    /\ NoPendingResponse
    /\ LET found == { u \in Users : UserEmail[u] = h.event.email } IN
       Becomes(h,
         IF ~ok THEN [WebhookCatch(h) EXCEPT !.fault = "directory"]
         ELSE IF found = {}
              THEN [Send(h, 404) EXCEPT !.lookup = "miss"]
         ELSE [h EXCEPT !.pc = "userRefUpdate", !.lookup = "hit", !.uid = FirstUser(found)])
    /\ UNCHANGED <<variant, secret, now, db, applied, last>>

\* The fields part_003 writes.
PremiumUpdate(rec, start, end) ==
    [rec EXCEPT !.isFreeUser = "false", !.premiumMonths = 1, !.subscription = "Premium",
                !.subscriptionStartDate = start, !.subscriptionEndDate = end]

\* await userRef.update(...) settles.
UserRefUpdateReturns(h, ok) ==
    /\ h.pc = "userRefUpdate"
    /\ NoPendingResponse
    /\ LET ref == h.event.reference
           rec == PremiumUpdate(db[h.uid], h.start, h.end)
       IN  IF ok
           THEN /\ db' = [db EXCEPT ![h.uid] = rec]
                /\ applied' = applied \cup {ref}
                /\ last' = [last EXCEPT ![h.uid] = Write(h.event, h.start, h.end)]
                /\ Becomes(h, Send([h EXCEPT !.wrote = TRUE,
                                             !.changed = (rec # db[h.uid]),
                                             !.rewrote = (ref \in applied),
                                             !.log = Append(@, "write")], 200))
           ELSE /\ Becomes(h, [WebhookCatch(h) EXCEPT !.fault = "store"])
                /\ UNCHANGED <<db, applied, last>>
    /\ UNCHANGED <<variant, secret, now>>

(***************************************************************************)
(* src/server.js, second half, and src/unnamed/part_002:                   *)
(* POST /verify-transaction, called by the client app with                 *)
(* { reference, email }.  (The route of part_001 never updates a record    *)
(* and is left out.)                                                       *)
(***************************************************************************)
VerifyBody(id, ref, email) ==
    [id |-> id, utf8 |-> TRUE, json |-> TRUE, event |-> "",
     hasData |-> FALSE, hasCustomer |-> FALSE, reference |-> ref, email |-> email,
     paid_at |-> PaidAbsent]

VerifyBodies ==
    { VerifyBody("v1", "ref-1", "a@example.com"),
      VerifyBody("v3", "", "a@example.com"),
      VerifyBody("v4", "ref-1", NoEmail),
      VerifyBody("v5", "ref-1", "b@example.com") }

VerifyRequests == { Request("application/json", b, NoSig) : b \in VerifyBodies }

\* The handler up to its first await: the body is what the JSON middleware
\* parsed; no signature is asked for.
VerifyTransactionRun(req) ==
    LET body == JsonBeforeRaw(req).value IN
    IF body.reference = "" \/ body.email = NoEmail THEN Respond(400, FALSE, FALSE)
    ELSE [Suspend("verifyAxios", NoDate, NoDate) EXCEPT !.verified = FALSE, !.parsed = FALSE]

VerifyTransaction(req) ==
    /\ variant \in {"server_v2", "part_002"}
    /\ Accept(Handler("/verify-transaction", req, JsonBeforeRaw(req), Unhashable,
                      JsonBeforeRaw(req).value, VerifyTransactionRun(req)))

\* await axios.get(.../transaction/verify/${reference}) returns in
\* /verify-transaction.
VerifyAxiosReturns(h, outcome) ==
    /\ h.pc = "verifyAxios"
    /\ NoPendingResponse
    /\ outcome \in ProviderOutcomes
    /\ Becomes(h,
         IF outcome = "error"
         THEN [Send(h, 500) EXCEPT !.fault = "provider"]
         ELSE IF StatusIsSuccess(outcome)
              THEN [h EXCEPT !.pc = "once", !.verification = outcome]
         ELSE [Send(h, 400) EXCEPT !.verification = outcome])
    /\ UNCHANGED <<variant, secret, now, db, applied, last>>

(***************************************************************************)
(* POST /create-access-code (every revision): starts a transaction at the  *)
(* provider for { email, amount }.  It reads and writes no user record.    *)
(***************************************************************************)
\* A body with an email and an amount, and one without an email.
CreateBodies ==
    { VerifyBody("c1", "", "a@example.com"), VerifyBody("c2", "", NoEmail) }

CreateRequests == { Request("application/json", b, NoSig) : b \in CreateBodies }

\* The handler up to its first await.
CreateAccessCodeRun(req) ==
    IF req.body.email = NoEmail THEN Respond(400, FALSE, FALSE)
    ELSE [Suspend("createAxios", NoDate, NoDate) EXCEPT !.verified = FALSE, !.parsed = FALSE]

CreateAccessCode(req) ==
    Accept(Handler("/create-access-code", req, Parsed(req.body), Unhashable,
                   req.body, CreateAccessCodeRun(req)))

\* await axios.post(.../transaction/initialize) returns.
CreateAxiosReturns(h, ok) ==
    /\ h.pc = "createAxios"
    /\ NoPendingResponse
    /\ ok => secret \notin {Undefined, ""}
    /\ Becomes(h, IF ok THEN Send(h, 200) ELSE [Send(h, 500) EXCEPT !.fault = "provider"])
    /\ UNCHANGED <<variant, secret, now, db, applied, last>>

(***************************************************************************)
(* The environment.                                                        *)
(***************************************************************************)
\* The client has its response; the request is over.
Close(h) ==
    /\ h.pc = "responded"
    /\ conn' = conn (-) SetToBag({h})
    /\ UNCHANGED <<variant, secret, now, db, applied, last>>

\* A day passes.
Tick ==
    /\ now < MaxTicks
    /\ NoPendingResponse
    /\ now' = now + 1
    /\ UNCHANGED <<variant, secret, db, conn, applied, last>>

(***************************************************************************)
(* The specification.                                                      *)
(***************************************************************************)
Init ==
    /\ variant \in Variants
    /\ secret \in Secrets
    /\ now = 0
    /\ db = [u \in Users |-> UserRecord(u)]
    /\ conn = EmptyBag
    /\ applied = {}
    /\ last = [u \in Users |-> NoWrite]

Next ==
    \/ \E req \in Requests : Server1Webhook(req)
    \/ \E req \in Requests : Server2Webhook(req)
    \/ \E req \in Requests : Part0Webhook(req)
    \/ \E req \in Requests : Part1Webhook(req)
    \/ \E req \in Requests : Part2Webhook(req)
    \/ \E req \in Requests : Part3Webhook(req)
    \/ \E h \in Open, outcome \in {"success", "failed", "error"} : AxiosReturns(h, outcome)
    \/ \E h \in Open, ok \in BOOLEAN : UsersQueryReturns(h, ok)
    \/ \E h \in Open, ok \in BOOLEAN : UpdateReturns(h, ok)
    \/ \E h \in Open, ok \in BOOLEAN : ListUsersReturns(h, ok)
    \/ \E h \in Open, ok \in BOOLEAN : UserRefUpdateReturns(h, ok)
    \/ \E req \in VerifyRequests : VerifyTransaction(req)
    \/ \E h \in Open, outcome \in {"success", "failed", "error"} : VerifyAxiosReturns(h, outcome)
    \/ \E req \in CreateRequests : CreateAccessCode(req)
    \/ \E h \in Open, ok \in BOOLEAN : CreateAxiosReturns(h, ok)
    \/ \E h \in Open : Close(h)
    \/ Tick

Spec == Init /\ [][Next]_vars

\* What the server and the clock do on their own: a response that was sent
\* reaches the client, and time passes.  Nothing makes the provider, the user
\* directory or the database answer: the handlers set no timeout on them.
Fairness ==
    /\ WF_vars(\E h \in Open : Close(h))
    /\ WF_vars(Tick)

LiveSpec == Spec /\ Fairness

TypeOK ==
    /\ variant \in Variants
    /\ secret \in Secrets
    /\ now \in 0..MaxTicks
    /\ applied \subseteq Refs
    /\ IsABag(conn) /\ BagCardinality(conn) <= MaxConn
    /\ \A h \in Open : h.status \in {0, 200, 400, 403, 404, 500}

(***************************************************************************)
(* The claims.                                                             *)
(***************************************************************************)
\* The requests that have been answered (and not yet closed).
Responded == { h \in Open : h.pc = "responded" }

\* A request to POST /webhook with Content-Type: application/json.
SentAsJson(h) == h.route = "/webhook" /\ h.req.ctype = "application/json"

\* The header equals hex(HMAC-SHA512(secret, body on the wire)).
SignatureMatches(h) == h.req.sig = HmacHex(secret, h.req.body.id)

\* The request passed the signature check of a server that has a real secret.
ValidlySigned(h) == secret \notin {Undefined, ""} /\ h.verified

IsCharge(h) == h.parsed /\ h.event.event = "charge.success"

\* Calendar-month addition with end-of-month clamping (the specified window).
AddMonthClamped(dt) ==
    LET t == MonthAfter(dt.y, dt.m)
        dim == DaysInMonth(t[1], t[2])
    IN  Date(t[1], t[2], IF dt.d <= dim THEN dt.d ELSE dim)

\* C1: with a non-empty secret configured, a request (here: one sent as JSON, with a
\* JSON body) whose signature header is absent or differs from the HMAC of the
\* received body is answered 403 and, in that request, no provider call is
\* made and no record is written.
C1_BadSignatureRejected ==
    \A h \in Responded :
        (secret \notin {Undefined, ""} /\ SentAsJson(h) /\ h.req.body.json
            /\ ~SignatureMatches(h))
            => (h.status = 403 /\ ~h.calledProvider /\ ~h.wrote)

\* C2: with a non-empty secret K, a request with body P on the wire (here: a
\* JSON body sent as JSON) and signature hex(HMAC-SHA512(K, P)) is never
\* answered 403.
C2_ValidSignaturePasses ==
    \A h \in Responded :
        (secret \notin {Undefined, ""} /\ SentAsJson(h) /\ h.req.body.json
            /\ SignatureMatches(h))
            => h.status # 403

\* C3 (its last part): when the secret is unset or empty, no request causes a
\* subscription record write.
C3_NoSecretNoWrite ==
    secret \in {Undefined, ""} => \A h \in Open : ~h.wrote

\* C4 (its frame part): a validly signed charge.success event whose reference
\* had already been applied when it arrived changes no subscription record.
C4_RedeliveryChangesNothing ==
    \A h \in Responded : (ValidlySigned(h) /\ IsCharge(h) /\ h.redelivery) => ~h.changed

\* C5: of the requests for one reference that are handled concurrently at most
\* one writes the record: a request that arrived before its reference was
\* applied, and wrote, is the first to write for that reference.
C5_OneWritePerReference ==
    \A h \in Responded : (ValidlySigned(h) /\ h.wrote /\ ~h.redelivery) => ~h.rewrote

\* C6: a charge.success event with paidAt D and reference R that was applied
\* to its user leaves that user's record with isPremium = true,
\* subscriptionStart = D, subscriptionEnd = D + 1 month and
\* lastPaymentReference = R, and is answered 200.
C6_ChargeApplied ==
    \A h \in Responded :
        (ValidlySigned(h) /\ h.wrote /\ h.event.paid_at.kind = "date")
            => LET D == h.event.paid_at.date
                   rec == db[h.uid]
               IN  /\ rec.isPremium = "true"
                   /\ rec.subscriptionStart = D
                   /\ rec.subscriptionEnd = AddMonthClamped(D)
                   /\ rec.lastPaymentReference = h.event.reference
                   /\ h.status = 200

\* C7: in every record written, the end of the window is its start plus one
\* calendar month, clamped to the last day of the following month.
C7_EndOfMonthClamped ==
    secret \notin {Undefined, ""} =>
    \A u \in Users :
        /\ db[u].subscriptionStart # NoDate
            => db[u].subscriptionEnd = AddMonthClamped(db[u].subscriptionStart)
        /\ db[u].subscriptionStartDate # NoDate
            => db[u].subscriptionEndDate = AddMonthClamped(db[u].subscriptionStartDate)

\* C8: a validly signed, parsed event whose handler went on to its downstream
\* steps (provider re-verification, user lookup, record write) is answered 200
\* whatever their outcome (here: even leaving aside the calls that fail
\* outright).
C8_AckWhateverDownstream ==
    \A h \in Responded :
        (ValidlySigned(h) /\ h.parsed /\ h.downstream /\ h.fault = "none") => h.status = 200

\* C9: a validly signed charge.success event without a payer email is answered
\* with a 4xx status and writes no record.
C9_MissingEmailRejected ==
    \A h \in Responded :
        (ValidlySigned(h) /\ IsCharge(h) /\ h.event.hasData /\ h.event.email = NoEmail)
            => (h.status \in 400..499 /\ ~h.wrote)

\* C10: a validly signed charge.success event whose payer email matches no
\* user writes no record and is answered 200.
C10_UnknownUserAcked ==
    \A h \in Responded :
        (ValidlySigned(h) /\ IsCharge(h) /\ h.lookup = "miss") => (~h.wrote /\ h.status = 200)

\* C11: a validly signed charge.success event for which the provider reports a
\* status other than success is dropped: the request is answered 200 at once
\* and writes no record.
C11_NonSuccessDropped ==
    \A h \in Open :
        (ValidlySigned(h) /\ IsCharge(h) /\ h.verification = "failed")
            => (h.pc = "responded" /\ h.status = 200 /\ ~h.wrote /\ ~h.changed)

C11_Witness ==
    \E h \in Responded :
        /\ ValidlySigned(h) /\ IsCharge(h) /\ h.verification = "failed"
        /\ h.event.email = "a@example.com" /\ db["u1"] = UserRecord("u1")

\* C12: when the record write fails while a charge.success event is applied,
\* the request is answered with a failure status and nothing was written.
C12_WriteFailureFailsRequest ==
    \A h \in Responded :
        (ValidlySigned(h) /\ IsCharge(h) /\ h.fault = "store")
            => (h.status \notin 200..299 /\ ~h.wrote)

\* C13: when the provider call of a validly signed charge.success event fails
\* without returning a status, the request is answered with a non-success
\* status and writes no record.
C13_ProviderUnreachableFails ==
    \A h \in Open :
        (ValidlySigned(h) /\ IsCharge(h) /\ h.fault = "provider")
            => (h.pc = "responded" /\ h.status \notin 200..299
                /\ ~h.wrote /\ ~h.changed /\ h.verification = "none")

C13_Witness ==
    \E h \in Responded :
        /\ ValidlySigned(h) /\ IsCharge(h) /\ h.fault = "provider"
        /\ h.calledProvider /\ h.status = 500
        /\ h.event.reference \notin applied

\* C14: a validly signed event of any kind other than charge.success is
\* answered 200, with no provider call and no record write.
C14_OtherKindsAcked ==
    \A h \in Responded :
        (secret \notin {Undefined, ""} /\ SentAsJson(h) /\ h.req.body.json
            /\ SignatureMatches(h) /\ h.req.body.event # "charge.success")
            => (h.status = 200 /\ ~h.calledProvider /\ ~h.wrote)

\* C15: what the webhook handler feeds to the HMAC is exactly the byte
\* sequence received on the wire (here: for a JSON body sent as JSON that
\* carries a signature, so that the handler gets to hash it).
C15_HashesWireBytes ==
    \A h \in Open :
        (secret \notin {Undefined, ""} /\ SentAsJson(h) /\ h.req.body.json
            /\ h.req.sig.present)
            => h.hashed = Hashable(h.req.body.id)

\* C16: the body of a webhook request is JSON-parsed, by the middleware or by
\* the handler, only if the signature check of that request has succeeded.
C16_ParseAfterVerify ==
    \A h \in Open :
        (secret \notin {Undefined, ""} /\ h.route = "/webhook" /\ (h.preparsed \/ h.parsed))
            => h.verified

\* C17: a subscription record is written only by a request that passed the
\* signature check, was parsed as a charge.success event and, where the
\* provider was asked, got a success status for its reference.
C17_WriteOnlyThroughPipeline ==
    \A h \in Open :
        (secret \notin {Undefined, ""} /\ h.wrote)
            => (h.verified /\ IsCharge(h)
                /\ (h.calledProvider => h.verification = "success"))

\* C18: applying to a user's record the charge.success event that was the
\* last one applied to it (same reference, same paidAt) leaves the record as
\* it was: a step that changes a record applies another event than the last.
C18_ReapplyIsIdempotent ==
    [][\A u \in Users :
          (secret \notin {Undefined, ""} /\ last[u].event.event = "charge.success"
              /\ db'[u] # db[u])
              => last'[u].event # last[u].event]_vars

\* One month after D, whichever way the end of a short month is treated.
MonthAfterDate(D) == {AddMonthClamped(D), SetMonthPlusOne(D)}

\* C19: the end of a user's window is paidAt of the charge.success event most
\* recently applied to the user plus one month.
C19_WindowResetsFromPaidAt ==
    \A u \in Users :
        (secret \notin {Undefined, ""} /\ last[u].event.event = "charge.success"
            /\ last[u].event.paid_at.kind = "date")
            => LET D == last[u].event.paid_at.date IN
               /\ db[u].subscriptionEnd # NoDate => db[u].subscriptionEnd \in MonthAfterDate(D)
               /\ db[u].subscriptionEndDate # NoDate
                    => db[u].subscriptionEndDate \in MonthAfterDate(D)

\* C20: a user's record is, as a whole, what the write most recently applied
\* to it carried: no field comes from an earlier writer.
C20_LastWriterWinsWhole ==
    \A u \in Users :
        /\ db[u].isPremium # "absent"
            => /\ db[u].isPremium = "true"
               /\ db[u].subscriptionStart = last[u].start
               /\ db[u].subscriptionEnd = last[u].end
               /\ db[u].lastPaymentReference = last[u].event.reference
        /\ db[u].isFreeUser # "absent"
            => /\ db[u].subscriptionStartDate = last[u].start
               /\ db[u].subscriptionEndDate = last[u].end
               /\ db[u].subscriptionStartDate = last[u].event.paid_at.date

\* Two validly signed charge.success events with different references for one
\* user are in flight together; one has written, the other is about to.
C20_Witness ==
    \E h \in Responded, g \in Open :
        /\ ValidlySigned(h) /\ IsCharge(h) /\ ValidlySigned(g) /\ IsCharge(g)
        /\ h.wrote /\ g.pc = "update" /\ g.uid = h.uid
        /\ g.event.reference # h.event.reference
        /\ db[h.uid].lastPaymentReference = h.event.reference

\* C21: a validly signed charge.success event that has a payer but no paidAt
\* field is not rejected for the missing field.
C21_AbsentPaidAtAccepted ==
    \A h \in Responded :
        (ValidlySigned(h) /\ IsCharge(h) /\ h.event.hasData /\ h.event.hasCustomer
            /\ h.event.email # NoEmail /\ h.event.paid_at.kind = "absent")
            => h.status \notin 400..499

\* C22 (its frame part): a validly signed charge.success event whose paidAt is
\* present but not a timestamp is turned down before any user lookup and
\* without a record write.
C22_InvalidPaidAtRejected ==
    \A h \in Responded :
        (ValidlySigned(h) /\ IsCharge(h) /\ h.event.hasData
            /\ h.event.paid_at.kind = "invalid")
            => (h.lookup = "none" /\ ~h.wrote)

\* A webhook request that has not been answered yet.
Waiting ==
    \E h \in Open : h.route = "/webhook" /\ h.pc # "responded"

\* C23: every webhook request is eventually answered, even when the provider
\* call or the user lookup it waits for never returns.
C23_EveryRequestAnswered == (secret \notin {Undefined, ""} /\ Waiting) ~> ~Waiting

\* The number of entries e of a log.
Count(log, e) == Cardinality({ i \in 1..Len(log) : log[i] = e })

\* C24: a webhook request is answered exactly once, on every path, and the
\* response is the last thing it does: a record write of the request comes
\* before its response, never after.
C24_OneResponseAfterWrite ==
    \A h \in Open :
        h.route = "/webhook" =>
            /\ Count(h.log, "send") = (IF h.pc = "responded" THEN 1 ELSE 0)
            /\ h.pc = "responded" => h.log[Len(h.log)] = "send"
            /\ h.wrote <=> Count(h.log, "write") = 1

\* A charge was applied and then acknowledged.
C24_Witness ==
    \E h \in Responded :
        /\ h.route = "/webhook" /\ ValidlySigned(h) /\ IsCharge(h)
        /\ h.log = <<"write", "send">> /\ h.status = 200

\* C25: the record writes that carry one payment reference all go to one
\* user: no two users' records hold the same lastPaymentReference.
C25_OneUserPerReference ==
    \A u, v \in Users :
        (secret \notin {Undefined, ""} /\ u # v /\ db[u].lastPaymentReference # "")
            => db[u].lastPaymentReference # db[v].lastPaymentReference

\* The place of a user in the order in which query results list users.
Position(u) == CHOOSE i \in 1..Len(UserOrder) : UserOrder[i] = u

\* The fields of a record that are not subscription fields.
Profile(rec) == rec.email

\* C26: a step that changes a user's record changes the record of one user
\* only, the first user whose email is the payer's, and leaves the fields of
\* that record that are not subscription fields as they were.
C26_WriteTouchesOneRecord ==
    [][\A u \in Users :
          db'[u] # db[u] =>
              /\ \A v \in Users \ {u} : db'[v] = db[v]
              /\ Profile(db'[u]) = Profile(db[u])
              /\ UserEmail[u] = last'[u].event.email
              /\ \A v \in Users :
                    UserEmail[v] = last'[u].event.email => Position(u) <= Position(v)]_vars

\* A charge of a@example.com was applied to u1, the first of the two users
\* with that address; u3 is as it was.
C26_Witness ==
    \E h \in Responded :
        /\ ValidlySigned(h) /\ IsCharge(h) /\ h.wrote /\ h.changed
        /\ h.uid = "u1" /\ UserEmail["u3"] = h.event.email
        /\ db["u3"] = UserRecord("u3") /\ db["u2"] = UserRecord("u2")

\* C27: once a user's record has isPremium = true, no step of any endpoint
\* sets it to anything else or removes the record's subscription fields.
C27_PremiumIsMonotone ==
    [][\A u \in Users :
          db[u].isPremium = "true" =>
              /\ db'[u].isPremium = "true"
              /\ db'[u].subscriptionStart # NoDate
              /\ db'[u].subscriptionEnd # NoDate
              /\ db'[u].lastPaymentReference # ""]_vars

\* A record that was premium already has been written again.
C27_Witness ==
    \E h \in Responded :
        /\ h.wrote /\ h.rewrote /\ h.uid # ""
        /\ db[h.uid].isPremium = "true"

====
